---- MODULE Spec2Model ----
(***************************************************************************)
(* The git loader of subsurface (load-git.c): a pre-order walk over a git  *)
(* tree whose directory and file names encode dive trips and dives.       *)
(*                                                                         *)
(* C strings are sequences of one-character strings; a read at or past    *)
(* the end of a string yields the terminator NUL.  A timestamp_t is the   *)
(* pair [day, sec] standing for day * 86400 + sec seconds since the epoch *)
(* (the products exceed the integers TLC computes with).                  *)
(*                                                                         *)
(* A value that a C function keeps in a local variable is handed to a     *)
(* continuation operator (f_1, f_2, ...) as a parameter; where it is read *)
(* more than once it is computed once, as the v of the one-element set    *)
(* { f_1(v) : v \in {e} }, whose element CHOOSE then takes.                *)
(***************************************************************************)
EXTENDS Integers, Sequences, FiniteSets, TLC

VARIABLES
    active_dive,    \* static struct dive *active_dive: index into dive_table, or NULL
    active_trip,    \* static dive_trip_t *active_trip: index into trip_heap, or NULL
    dive_table,     \* the dives registered by record_dive(), in order
    trip_heap,      \* the trips allocated by create_new_trip(), in order
    errors,         \* the messages handed to report_error(), in order
    pc,             \* "idle": no load running; "walk": inside git_tree_walk()
    ret,            \* the value the last git_load_dives() returned
    nloads,         \* number of git_load_dives() calls started
    stack,          \* the directories the walk is inside of, outermost first
    prevs,          \* per open level, the name of the entry visited last
    nodes,          \* number of entries visited by the running walk
    mode,           \* "given": every load walks the tree `tree`;
                    \* "any": the walk finds an arbitrary tree as it goes
    tree,           \* in mode "given", the tree as the sequence of its visits
    pos,            \* in mode "given", the next visit of tree
    store,          \* how the object store answers the running (or last) load
    start,          \* the program state when that load was called
    cur,            \* the last callback: its entry, prefix, result, and the state before it
    made            \* the path of the entry whose callback registered each dive
                    \* and allocated each trip, and the number of dive
                    \* directories accepted so far

vars == <<active_dive, active_trip, dive_table, trip_heap, errors, pc, ret,
          nloads, stack, prevs, nodes, mode, tree, pos, store, start, cur, made>>

-----------------------------------------------------------------------------
(* Program constants *)

GIT_WALK_OK == 0
GIT_WALK_SKIP == 1
NULL == 0
NUL == "NUL"

-----------------------------------------------------------------------------
(* Bounds of the model *)

MaxNodes == 4        \* entries visited by one walk (Spec)
MaxLoads == 2        \* calls of git_load_dives (SpecLoads)
MaxPrefix == 2       \* numeric directories above the decoded directory (SpecDecode)

-----------------------------------------------------------------------------
(* C strings and the libc functions the loader uses *)

Digit == <<"0", "1", "2", "3", "4", "5", "6", "7", "8", "9">>

\* The characters the names use, in ASCII order (memcmp order of git trees).
Alphabet == <<" ", "-", ".", "/", "0", "1", "2", "3", "4", "5", "6", "7", "8", "9",
              ":", "D", "T", "U", "a", "c", "d", "e", "i", "k", "l", "m", "n", "o",
              "p", "r", "s", "t", "u", "v", "x", "~">>

Ord(c) == IF c = NUL THEN 0 ELSE CHOOSE i \in 1..Len(Alphabet) : Alphabet[i] = c

\* s[i] of C, i counted from 0
At(s, i) == IF i >= 0 /\ i < Len(s) THEN s[i + 1] ELSE NUL

\* the C string s + i
From(s, i) == IF i >= Len(s) THEN <<>> ELSE SubSeq(s, i + 1, Len(s))

strlen(s) == Len(s)

isdigit(c) == \E d \in 1..10 : Digit[d] = c

isspace(c) == c = " "

DigitVal(c) == (CHOOSE d \in 1..10 : Digit[d] = c) - 1

RECURSIVE SkipSpace(_, _)
SkipSpace(s, i) == IF isspace(At(s, i)) THEN SkipSpace(s, i + 1) ELSE i

RECURSIVE DigitRun(_, _)
DigitRun(s, i) == IF isdigit(At(s, i)) THEN 1 + DigitRun(s, i + 1) ELSE 0

RECURSIVE DecVal(_, _, _)
DecVal(s, i, n) ==
    IF n = 0 THEN 0 ELSE DecVal(s, i, n - 1) * 10 + DigitVal(At(s, i + n - 1))

\* One %d conversion (and the number atoi reads) at offset i: white space,
\* an optional sign, decimal digits.  ok: digits were found; end: the
\* offset after them.
ScanInt_val(neg, n, v, end) == [ok |-> n > 0, val |-> IF neg THEN -v ELSE v, end |-> end]
ScanInt_digits(s, j, k, n) == ScanInt_val(At(s, j) = "-", n, DecVal(s, k, n), k + n)
ScanInt_sign(s, j, k) == CHOOSE r \in { ScanInt_digits(s, j, k, n) : n \in {DigitRun(s, k)} } : TRUE
ScanInt_space(s, j) == ScanInt_sign(s, j, IF At(s, j) \in {"-", "+"} THEN j + 1 ELSE j)
ScanInt(s, i) == CHOOSE r \in { ScanInt_space(s, j) : j \in {SkipSpace(s, i)} } : TRUE

atoi(s) == ScanInt(s, 0).val

\* sscanf(s, "%d/%d", &a, &b): n is the return value (-1 is EOF)
sscanf_d_d_2(s, a, b) ==
    IF At(s, a.end) # "/" \/ ~b.ok THEN [n |-> 1, a |-> a.val, b |-> -1]
    ELSE [n |-> 2, a |-> a.val, b |-> b.val]
sscanf_d_d_1(s, a) ==
    IF SkipSpace(s, 0) >= Len(s) THEN [n |-> -1, a |-> -1, b |-> -1]
    ELSE IF ~a.ok THEN [n |-> 0, a |-> -1, b |-> -1]
    ELSE CHOOSE r \in { sscanf_d_d_2(s, a, b) : b \in {ScanInt(s, a.end + 1)} } : TRUE
sscanf_d_d(s) == CHOOSE r \in { sscanf_d_d_1(s, a) : a \in {ScanInt(s, 0)} } : TRUE

\* sscanf(s, "%d:%d:%d", &h, &m, &s)
sscanf_d_d_d_3(s, a, b, c) ==
    IF At(s, b.end) # ":" \/ ~c.ok THEN [n |-> 2, a |-> a.val, b |-> b.val, c |-> 0]
    ELSE [n |-> 3, a |-> a.val, b |-> b.val, c |-> c.val]
sscanf_d_d_d_2(s, a, b) ==
    IF At(s, a.end) # ":" \/ ~b.ok THEN [n |-> 1, a |-> a.val, b |-> 0, c |-> 0]
    ELSE CHOOSE r \in { sscanf_d_d_d_3(s, a, b, c) : c \in {ScanInt(s, b.end + 1)} } : TRUE
sscanf_d_d_d_1(s, a) ==
    IF SkipSpace(s, 0) >= Len(s) THEN [n |-> -1, a |-> 0, b |-> 0, c |-> 0]
    ELSE IF ~a.ok THEN [n |-> 0, a |-> 0, b |-> 0, c |-> 0]
    ELSE CHOOSE r \in { sscanf_d_d_d_2(s, a, b) : b \in {ScanInt(s, a.end + 1)} } : TRUE
sscanf_d_d_d(s) == CHOOSE r \in { sscanf_d_d_d_1(s, a) : a \in {ScanInt(s, 0)} } : TRUE

\* strncmp(s, p, strlen(p)) == 0
HasPrefix(s, p) == Len(s) >= Len(p) /\ SubSeq(s, 1, Len(p)) = p

-----------------------------------------------------------------------------
(* Timestamps *)

\* 1970-01-01T00:00:00Z
Epoch == [day |-> 0, sec |-> 0]

\* the (timestamp_t) -1 of a struct tm that is out of range
BadTime == [day |-> -1, sec |-> -1]

MkTime(day, sec) == [day |-> day + (sec \div 86400), sec |-> sec % 86400]

mdays == <<0, 31, 59, 90, 120, 151, 181, 212, 243, 273, 304, 334>>

IsLeap(y) == (y % 4 = 0 /\ y % 100 # 0) \/ y % 400 = 0

\* leap days between 1970-01-01 and January 1st of year y
LeapDaysBefore(y) ==
    (((y - 1) \div 4) - ((y - 1) \div 100) + ((y - 1) \div 400)) - 477

\* utc_mktime(&tm): the UTC time of a broken-down struct tm.  tm_year is
\* taken relative to 1900 unless it is a full year already (above 1900),
\* which is what lets create_new_trip pass yyyy and dive_directory pass
\* yyyy - 1900 and both mean the year yyyy.
utc_mktime_year(tm, year) ==
    IF year < 1970 \/ tm.tm_mon < 0 \/ tm.tm_mon > 11
       \/ tm.tm_hour < 0 \/ tm.tm_min < 0 \/ tm.tm_sec < 0
    THEN BadTime
    ELSE MkTime((year - 1970) * 365 + LeapDaysBefore(year)
                + mdays[tm.tm_mon + 1] + tm.tm_mday - 1
                + (IF tm.tm_mon >= 2 /\ IsLeap(year) THEN 1 ELSE 0),
                tm.tm_hour * 3600 + tm.tm_min * 60 + tm.tm_sec)
utc_mktime(tm) ==
    utc_mktime_year(tm, IF tm.tm_year > 1900 THEN tm.tm_year ELSE tm.tm_year + 1900)

-----------------------------------------------------------------------------
(* The dive list and the error log (dive.h) *)

\* alloc_dive(): a zeroed struct dive
alloc_dive == [when |-> Epoch, number |-> 0, divetrip |-> NULL]

\* add_dive_to_trip(dive, trip)
add_dive_to_trip(dive, trip) == [dive EXCEPT !.divetrip = trip]

\* record_dive(dive): append to the dive table
record_dive(table, dive) == Append(table, dive)

\* what report_error() returns
REPORT_ERROR == -1

\* report_error(msg): the state with the message logged
report_error(st, msg) == [st EXCEPT !.errors = Append(@, msg)]

-----------------------------------------------------------------------------
(* load-git.c *)

\* The loader's view of the program state, as one value.
St == [active_dive |-> active_dive, active_trip |-> active_trip,
       dive_table |-> dive_table, trip_heap |-> trip_heap, errors |-> errors]

\* A callback result: the value returned and the state left behind.
Skip(st) == [ret |-> GIT_WALK_SKIP, st |-> st]
Ok(st) == [ret |-> GIT_WALK_OK, st |-> st]

\* create_new_dive not adding the dive to the active trip
create_new_dive_1_noattach(st, dive) ==
    [st EXCEPT !.dive_table = record_dive(@, dive)]

\* The state with the dive registered; the new dive is the last of the table.
create_new_dive_1(st, dive) ==
    [st EXCEPT !.dive_table =
        record_dive(@, IF st.active_trip # NULL
                       THEN add_dive_to_trip(dive, st.active_trip)
                       ELSE dive)]
create_new_dive(st, when) == create_new_dive_1(st, [alloc_dive EXCEPT !.when = when])

\* create_new_trip with the month not made zero-based
create_new_trip_month(yyyy, mm, dd) ==
    [when |-> utc_mktime([tm_year |-> yyyy, tm_mon |-> mm, tm_mday |-> dd,
                          tm_hour |-> 0, tm_min |-> 0, tm_sec |-> 0])]

create_new_trip(yyyy, mm, dd) ==
    [when |-> utc_mktime([tm_year |-> yyyy, tm_mon |-> mm - 1, tm_mday |-> dd,
                          tm_hour |-> 0, tm_min |-> 0, tm_sec |-> 0])]

\* validate_date letting the year 1970 through
validate_date_1970(yyyy, mm, dd) ==
    yyyy >= 1970 /\ yyyy < 3000 /\ mm > 0 /\ mm < 13 /\ dd > 0 /\ dd < 32

validate_date(yyyy, mm, dd) ==
    yyyy > 1970 /\ yyyy < 3000 /\ mm > 0 /\ mm < 13 /\ dd > 0 /\ dd < 32

\* validate_time without the leap second
validate_time_noleap(h, m, s) ==
    h >= 0 /\ h < 24 /\ m >= 0 /\ m < 60 /\ s >= 0 /\ s < 60

validate_time(h, m, s) ==
    h >= 0 /\ h < 24 /\ m >= 0 /\ m < 60 /\ s >= 0 /\ s <= 60

\* dive_trip_directory dropping the active dive with the new trip
dive_trip_directory_1_clear(st, sc, dd) ==
    IF sc.n # 2 THEN Skip(st)
    ELSE IF ~validate_date(sc.a, sc.b, dd) THEN Skip(st)
    ELSE Ok([st EXCEPT !.trip_heap = Append(@, create_new_trip(sc.a, sc.b, dd)),
                       !.active_trip = Len(st.trip_heap) + 1,
                       !.active_dive = NULL])

\* sc: what sscanf(root, "%d/%d", &yyyy, &mm) gave; dd: atoi(name)
dive_trip_directory_1(st, sc, dd) ==
    IF sc.n # 2 THEN Skip(st)
    ELSE IF ~validate_date(sc.a, sc.b, dd) THEN Skip(st)
    ELSE Ok([st EXCEPT !.trip_heap = Append(@, create_new_trip(sc.a, sc.b, dd)),
                       !.active_trip = Len(st.trip_heap) + 1])
dive_trip_directory(st, root, name) ==
    dive_trip_directory_1(st, sscanf_d_d(root), atoi(name))

\* the struct tm with the month left one-based
dive_tm_month(yyyy, mm, dd, h, m, s) ==
    [tm_year |-> yyyy - 1900, tm_mon |-> mm, tm_mday |-> dd,
     tm_hour |-> h, tm_min |-> m, tm_sec |-> s]

\* the struct tm dive_directory fills in
dive_tm(yyyy, mm, dd, h, m, s) ==
    [tm_year |-> yyyy - 1900, tm_mon |-> mm - 1, tm_mday |-> dd,
     tm_hour |-> h, tm_min |-> m, tm_sec |-> s]

\* active_dive = create_new_dive(...)
dive_directory_new(new) == Ok([new EXCEPT !.active_dive = Len(new.dive_table)])

\* lines 146-159, the date being known
dive_directory_create(st, yyyy, mm, dd, tod) ==
    IF ~validate_date(yyyy, mm, dd) THEN Skip(st)
    ELSE CHOOSE r \in { dive_directory_new(new) :
                            new \in {create_new_dive(
                                         st, utc_mktime(dive_tm(yyyy, mm, dd,
                                                                tod.a, tod.b, tod.c)))} } : TRUE

\* the date with the month of the name read only when the prefix gave none
dive_directory_date_prefix(st, name, mday_off, month_off, year_off, tod, sc) ==
    IF year_off < 0 /\ sc.n # 2 THEN Skip(st)
    ELSE dive_directory_create(
             st,
             IF year_off < 0 THEN sc.a ELSE atoi(From(name, year_off)),
             IF year_off < 0 THEN sc.b
             ELSE IF month_off >= 0 THEN atoi(From(name, month_off)) ELSE -1,
             atoi(From(name, mday_off)),
             tod)

\* lines 137-144; sc: what sscanf(root, "%d/%d", &yyyy, &mm) gives
dive_directory_date(st, name, mday_off, month_off, year_off, tod, sc) ==
    IF year_off < 0 /\ sc.n # 2 THEN Skip(st)
    ELSE CHOOSE r \in { dive_directory_create(st, yyyy, mm, dd, tod) :
                            yyyy \in {IF year_off < 0 THEN sc.a
                                      ELSE atoi(From(name, year_off))},
                            mm \in {IF month_off >= 0 THEN atoi(From(name, month_off))
                                    ELSE IF year_off < 0 THEN sc.b ELSE -1},
                            dd \in {atoi(From(name, mday_off))} } : TRUE

\* dive_directory without the test of the prefix length
dive_directory_reset_never(st, root) == st

\* lines 129-130: a prefix of 8 characters drops the active trip
dive_directory_reset(st, root) ==
    IF strlen(root) = 8 THEN [st EXCEPT !.active_trip = NULL] ELSE st

\* lines 104-130; tod: what sscanf(name+timeoff, "%d:%d:%d", &h, &m, &s) gave
dive_directory_time(st, root, name, timeoff, tod) ==
    IF tod.n # 3 THEN Skip(st)
    ELSE IF ~validate_time(tod.a, tod.b, tod.c) THEN Skip(st)
    ELSE CHOOSE r \in { dive_directory_date(st1, name, timeoff - 7, timeoff - 10,
                                                timeoff - 15, tod, sc) :
                            st1 \in {dive_directory_reset(st, root)},
                            sc \in {sscanf_d_d(root)} } : TRUE

dive_directory(st, root, name, timeoff) ==
    IF timeoff - 7 < 0 THEN Skip(st)
    ELSE IF At(name, timeoff - 1) # "-" THEN Skip(st)
    ELSE CHOOSE r \in { dive_directory_time(st, root, name, timeoff, tod) :
                            tod \in {sscanf_d_d_d(From(name, timeoff))} } : TRUE

\* the loop of nonunique_length, str advanced by i characters
RECURSIVE nonunique_length_at(_, _)
nonunique_length_at(str, i) ==
    IF At(str, i) = NUL \/ At(str, i) = "~" THEN 0
    ELSE 1 + nonunique_length_at(str, i + 1)
nonunique_length(str) == nonunique_length_at(str, 0)

\* walk_tree_directory taking any number of leading digits
walk_tree_directory_1_anydigits(st, root, name, digits, len) ==
    IF digits = 0 THEN Skip(st)
    ELSE IF At(name, digits) = NUL THEN Ok(st)
    ELSE IF At(name, digits) # "-" THEN Skip(st)
    ELSE IF At(name, len - 3) = ":" THEN dive_directory(st, root, name, len - 8)
    ELSE IF digits # 2 THEN Skip(st)
    ELSE dive_trip_directory(st, root, name)

\* lines 219-244; digits: the leading digits of name; len: nonunique_length(name)
walk_tree_directory_1(st, root, name, digits, len) ==
    IF digits # 4 /\ digits # 2 THEN Skip(st)
    ELSE IF At(name, digits) = NUL THEN Ok(st)
    ELSE IF At(name, digits) # "-" THEN Skip(st)
    ELSE IF At(name, len - 3) = ":" THEN dive_directory(st, root, name, len - 8)
    ELSE IF digits # 2 THEN Skip(st)
    ELSE dive_trip_directory(st, root, name)
walk_tree_directory(st, root, name) ==
    CHOOSE r \in { walk_tree_directory_1(st, root, name, digits, len) :
                       digits \in {DigitRun(name, 0)}, len \in {nonunique_length(name)} } : TRUE

\* blob: whether git_tree_entry_blob() finds the blob (non-NULL)
parse_divecomputer_entry(st, blob, suffix) ==
    IF ~blob THEN [ret |-> REPORT_ERROR, st |-> report_error(st, "divecomputer")]
    ELSE [ret |-> 0, st |-> st]

\* parse_dive_entry reading the number at the suffix, not after its first character
parse_dive_entry_nosep(st, blob, suffix) ==
    IF ~blob THEN [ret |-> REPORT_ERROR, st |-> report_error(st, "dive")]
    ELSE IF At(suffix, 0) # NUL
    THEN [ret |-> 0,
          st  |-> [st EXCEPT !.dive_table[st.active_dive].number = atoi(suffix)]]
    ELSE [ret |-> 0, st |-> st]

parse_dive_entry(st, blob, suffix) ==
    IF ~blob THEN [ret |-> REPORT_ERROR, st |-> report_error(st, "dive")]
    ELSE IF At(suffix, 0) # NUL
    THEN [ret |-> 0,
          st  |-> [st EXCEPT !.dive_table[st.active_dive].number = atoi(From(suffix, 1))]]
    ELSE [ret |-> 0, st |-> st]

parse_trip_entry(st, blob) ==
    IF ~blob THEN [ret |-> REPORT_ERROR, st |-> report_error(st, "trip")]
    ELSE [ret |-> 0, st |-> st]

sDivecomputer == <<"D", "i", "v", "e", "c", "o", "m", "p", "u", "t", "e", "r">>
sDive == <<"D", "i", "v", "e">>
sTrip == <<"0", "0", "-", "T", "r", "i", "p">>

\* walk_tree_file testing for Dive before Divecomputer
walk_tree_file_diveFirst(st, root, name, blob) ==
    IF st.active_dive # NULL /\ HasPrefix(name, sDive)
    THEN parse_dive_entry(st, blob, From(name, 4))
    ELSE IF st.active_dive # NULL /\ HasPrefix(name, sDivecomputer)
    THEN parse_divecomputer_entry(st, blob, From(name, 12))
    ELSE IF st.active_trip # NULL /\ name = sTrip
    THEN parse_trip_entry(st, blob)
    ELSE [ret |-> GIT_WALK_SKIP, st |-> report_error(st, "unknown")]

\* walk_tree_file forgetting the trip at a file it does not know
walk_tree_file_forget(st, root, name, blob) ==
    IF st.active_dive # NULL /\ HasPrefix(name, sDivecomputer)
    THEN parse_divecomputer_entry(st, blob, From(name, 12))
    ELSE IF st.active_dive # NULL /\ HasPrefix(name, sDive)
    THEN parse_dive_entry(st, blob, From(name, 4))
    ELSE IF st.active_trip # NULL /\ name = sTrip
    THEN parse_trip_entry(st, blob)
    ELSE [ret |-> GIT_WALK_SKIP,
          st |-> [report_error(st, "unknown") EXCEPT !.active_trip = NULL]]

walk_tree_file(st, root, name, blob) ==
    IF st.active_dive # NULL /\ HasPrefix(name, sDivecomputer)
    THEN parse_divecomputer_entry(st, blob, From(name, 12))
    ELSE IF st.active_dive # NULL /\ HasPrefix(name, sDive)
    THEN parse_dive_entry(st, blob, From(name, 4))
    ELSE IF st.active_trip # NULL /\ name = sTrip
    THEN parse_trip_entry(st, blob)
    ELSE [ret |-> GIT_WALK_SKIP, st |-> report_error(st, "unknown")]

\* walk_tree_cb handing a file's result to git_tree_walk
walk_tree_cb_fileret(st, root, e, blob) ==
    IF e.tree THEN walk_tree_directory(st, root, e.name)
    ELSE walk_tree_file(st, root, e.name, blob)

\* e: the tree entry (name and file mode); a file's result is ignored
walk_tree_cb(st, root, e, blob) ==
    IF e.tree THEN walk_tree_directory(st, root, e.name)
    ELSE Ok(walk_tree_file(st, root, e.name, blob).st)

\* load_dives_from_tree failing when the walk reported an error
load_dives_from_tree_strict == IF Len(errors) > Len(start.errors) THEN -1 ELSE 0

load_dives_from_tree == 0

\* do_git_load not testing what git_reference_peel returned
do_git_load_nopeel(st, lookup, peel) ==
    IF lookup # 0
    THEN [walk |-> FALSE, ret |-> REPORT_ERROR, st |-> report_error(st, "nobranch")]
    ELSE [walk |-> TRUE, ret |-> 0, st |-> st]

\* do_git_load up to the walk: lookup and peel are the return values of
\* git_branch_lookup and git_reference_peel
do_git_load(st, lookup, peel) ==
    IF lookup # 0
    THEN [walk |-> FALSE, ret |-> REPORT_ERROR, st |-> report_error(st, "nobranch")]
    ELSE IF peel # 0
    THEN [walk |-> FALSE, ret |-> REPORT_ERROR, st |-> report_error(st, "notree")]
    ELSE [walk |-> TRUE, ret |-> 0, st |-> st]

\* git_load_dives up to the walk: open is the return value of git_repository_open
git_load_dives(st, open, lookup, peel) ==
    IF open # 0
    THEN [walk |-> FALSE, ret |-> REPORT_ERROR, st |-> report_error(st, "noopen")]
    ELSE do_git_load(st, lookup, peel)

-----------------------------------------------------------------------------
(* Tree entries.  Besides its name and mode an entry carries the fields   *)
(* its name was written from (-1: the name has no such field), so that    *)
(* what the loader decodes can be compared with what was encoded.         *)

D2(n) == <<Digit[((n \div 10) % 10) + 1], Digit[(n % 10) + 1]>>
D4(n) == D2(n \div 100) \o D2(n % 100)

Entry(name, istree, kind, y, mo, d, h, mi, s) ==
    [name |-> name, tree |-> istree, kind |-> kind,
     y |-> y, mo |-> mo, d |-> d, h |-> h, mi |-> mi, s |-> s]

NoEntry == Entry(<<>>, FALSE, "none", -1, -1, -1, -1, -1, -1)

\* a directory named by a number of the given width (2 or 4)
NumDir(n, width) ==
    Entry(IF width = 4 THEN D4(n) ELSE D2(n), TRUE, "num", -1, -1, n, -1, -1, -1)

\* [[yyyy-]mm-]dd-tag-hh:mm:ss[sfx]
DiveDir(y, mo, d, tag, h, mi, s, sfx) ==
    Entry((IF y >= 0 THEN D4(y) \o <<"-">> ELSE <<>>)
          \o (IF mo >= 0 THEN D2(mo) \o <<"-">> ELSE <<>>)
          \o D2(d) \o <<"-">> \o tag \o <<"-">>
          \o D2(h) \o <<":">> \o D2(mi) \o <<":">> \o D2(s) \o sfx,
          TRUE, "dive", y, mo, d, h, mi, s)

\* dd-label[sfx]
TripDir(d, label, sfx) ==
    Entry(D2(d) \o <<"-">> \o label \o sfx, TRUE, "trip", -1, -1, d, -1, -1, -1)

File(name) == Entry(name, FALSE, "file", -1, -1, -1, -1, -1, -1)

\* a directory with a name of none of the forms
OddDir(name) == Entry(name, TRUE, "odd", -1, -1, -1, -1, -1, -1)

\* the path prefix git_tree_walk hands to the callback inside directories ds
RECURSIVE RootOf(_)
RootOf(ds) ==
    IF ds = <<>> THEN <<>> ELSE ds[1].name \o <<"/">> \o RootOf(Tail(ds))

\* git orders the entries of a tree by name, a directory's name taken with
\* a trailing '/'
SortKey(e) == IF e.tree THEN e.name \o <<"/">> ELSE e.name

RECURSIVE StrLess(_, _, _)
StrLess(a, b, i) ==
    IF At(a, i) # At(b, i) THEN Ord(At(a, i)) < Ord(At(b, i))
    ELSE IF i >= Len(a) THEN FALSE
    ELSE StrLess(a, b, i + 1)

tag001 == <<"0", "0", "1">>
tag002 == <<"0", "0", "2">>
lblTrip == <<"t", "r", "i", "p">>
sfxNone == <<>>
sfxHex == <<"~", "a", "1">>

d2023 == NumDir(2023, 4)
d07 == NumDir(7, 2)
dTrip == TripDir(13, lblTrip, sfxNone)
dDive == DiveDir(2023, 7, 15, tag001, 10, 30, 0, sfxHex)
fDive_5 == File(sDive \o <<"-", "5">>)
fTrip == File(sTrip)
fTripx == File(sTrip \o <<"x">>)
fDivecomputer1 == File(sDivecomputer \o <<"1">>)
fUnrelated == File(<<"U", "n", "r", "e", "l", "a", "t", "e", "d", ".", "t", "x", "t">>)
d123 == OddDir(<<"1", "2", "3">>)
d07x == OddDir(<<"0", "7", "x">>)
dPics == OddDir(<<"p", "i", "c", "s">>)

\* The entries the trees of Spec are built from.
WalkDirs ==
    { d2023, d07, dTrip, dDive,
      DiveDir(-1, -1, 20, tag002, 9, 0, 0, sfxNone),
      DiveDir(-1, -1, 32, tag001, 10, 30, 0, sfxNone),
      d123, d07x, dPics }

WalkFiles ==
    { fTrip, File(sDive), fDive_5, File(sDive \o <<"5">>),
      fDivecomputer1, fTripx, fUnrelated }

-----------------------------------------------------------------------------
(* The walk: git_tree_walk(tree, GIT_TREEWALK_PRE, walk_tree_cb, repo)     *)

Event(t, e, blob) == [t |-> t, e |-> e, blob |-> blob]

\* The entry comes next in the directory the walk is in: after the entries
\* already visited there, and, when the tree is given, the one the tree has.
IsNext(t, e, blob) ==
    /\ pc = "walk"
    /\ mode = "given" => pos <= Len(tree) /\ tree[pos] = Event(t, e, blob)
    /\ t = "leave" \/ StrLess(prevs[Len(prevs)], SortKey(e), 0)

Callback(e, blob, r) ==
    [kind |-> IF e.tree THEN "dir" ELSE "file", e |-> e, up |-> stack,
     blob |-> blob, ret |-> r.ret, pre |-> St]

NoCallback ==
    [kind |-> "none", e |-> NoEntry, up |-> <<>>, blob |-> TRUE, ret |-> 0, pre |-> St]

SetState(st) ==
    /\ active_dive' = st.active_dive
    /\ active_trip' = st.active_trip
    /\ dive_table' = st.dive_table
    /\ trip_heap' = st.trip_heap
    /\ errors' = st.errors

\* seq with the path repeated up to length n
Grow(seq, n, path) == seq \o [i \in 1..(n - Len(seq)) |-> path]

\* the callback for the entry at path returned r
Made(r, path, isdive) ==
    [dive |-> Grow(made.dive, Len(r.st.dive_table), path),
     trip |-> Grow(made.trip, Len(r.st.trip_heap), path),
     ndirs |-> made.ndirs + (IF isdive /\ r.ret = GIT_WALK_OK THEN 1 ELSE 0)]

Advance ==
    /\ pos' = IF mode = "given" THEN pos + 1 ELSE pos
    /\ UNCHANGED <<mode, tree, nloads, store, start>>

\* git_tree_walk gives up when the callback returns a negative value:
\* do_git_load gets load_dives_from_tree's value
Aborted ==
    /\ pc' = "idle"
    /\ ret' = load_dives_from_tree
    /\ stack' = <<>>
    /\ prevs' = <<>>

\* r: what walk_tree_cb returned for the directory.  A positive value skips
\* the directory, zero makes the walk descend into it.
VisitDir_cb(e, r) ==
    /\ SetState(r.st)
    /\ cur' = Callback(e, TRUE, r)
    /\ made' = Made(r, Append(stack, e), e.kind = "dive")
    /\ IF r.ret < 0 THEN Aborted
       ELSE /\ stack' = IF r.ret = 0 THEN Append(stack, e) ELSE stack
            /\ prevs' = IF r.ret = 0
                        THEN Append([prevs EXCEPT ![Len(prevs)] = SortKey(e)], <<>>)
                        ELSE [prevs EXCEPT ![Len(prevs)] = SortKey(e)]
            /\ UNCHANGED <<pc, ret>>
    /\ nodes' = nodes + 1
    /\ Advance

\* The walk reaches a directory.
VisitDir(e) ==
    /\ e.tree
    /\ IsNext("dir", e, TRUE)
    /\ \E root \in {RootOf(stack)} : \E r \in {walk_tree_cb(St, root, e, TRUE)} : VisitDir_cb(e, r)

VisitFile_cb(e, blob, r) ==
    /\ SetState(r.st)
    /\ cur' = Callback(e, blob, r)
    /\ made' = Made(r, Append(stack, e), FALSE)
    /\ IF r.ret < 0 THEN Aborted
       ELSE /\ prevs' = [prevs EXCEPT ![Len(prevs)] = SortKey(e)]
            /\ UNCHANGED <<pc, ret, stack>>
    /\ nodes' = nodes + 1
    /\ Advance

\* The walk reaches a file whose blob the store has (blob) or lacks.
VisitFile(e, blob) ==
    /\ ~e.tree
    /\ IsNext("file", e, blob)
    /\ \E root \in {RootOf(stack)} : \E r \in {walk_tree_cb(St, root, e, blob)} : VisitFile_cb(e, blob, r)

\* The directory the walk is in has no more entries.
Leave ==
    /\ IsNext("leave", NoEntry, TRUE)
    /\ stack # <<>>
    /\ stack' = SubSeq(stack, 1, Len(stack) - 1)
    /\ prevs' = SubSeq(prevs, 1, Len(prevs) - 1)
    /\ Advance
    /\ UNCHANGED <<active_dive, active_trip, dive_table, trip_heap, errors,
                   pc, ret, nodes, cur, made>>

\* git_tree_walk returns; load_dives_from_tree, do_git_load and
\* git_load_dives return.
WalkDone ==
    /\ pc = "walk"
    /\ stack = <<>>
    /\ mode = "given" => pos > Len(tree)
    /\ pc' = "idle"
    /\ ret' = load_dives_from_tree
    /\ prevs' = <<>>
    /\ UNCHANGED <<active_dive, active_trip, dive_table, trip_heap, errors,
                   nloads, stack, nodes, mode, tree, pos, store, start, cur, made>>

Answers == {"noopen", "nobranch", "notree", "ok"}

\* r: what git_load_dives did before the walk, if it got that far
Load_r(answer, r) ==
    /\ SetState(r.st)
    /\ pc' = IF r.walk THEN "walk" ELSE "idle"
    /\ ret' = IF r.walk THEN ret ELSE r.ret
    /\ prevs' = IF r.walk THEN << <<>> >> ELSE <<>>
    /\ nloads' = nloads + 1
    /\ store' = answer
    /\ start' = St
    /\ stack' = <<>>
    /\ nodes' = 0
    /\ pos' = 1
    /\ cur' = NoCallback
    /\ UNCHANGED <<tree, mode, made>>

\* git_load_dives(where) is called; the store answers as `answer` says.
Load(answer) ==
    /\ pc = "idle"
    /\ Load_r(answer, git_load_dives(St,
                                     IF answer = "noopen" THEN -1 ELSE 0,
                                     IF answer = "nobranch" THEN -1 ELSE 0,
                                     IF answer = "notree" THEN -1 ELSE 0))

\* The program before the first load.
Start(m, t) ==
    /\ active_dive = NULL
    /\ active_trip = NULL
    /\ dive_table = <<>>
    /\ trip_heap = <<>>
    /\ errors = <<>>
    /\ pc = "idle"
    /\ ret = 0
    /\ nloads = 0
    /\ stack = <<>>
    /\ prevs = <<>>
    /\ nodes = 0
    /\ mode = m
    /\ tree = t
    /\ pos = 1
    /\ store = "ok"
    /\ start = St
    /\ cur = NoCallback
    /\ made = [dive |-> <<>>, trip |-> <<>>, ndirs |-> 0]

Init == Start("any", <<>>)

\* One load of any tree of at most MaxNodes entries.
Next ==
    \/ nloads = 0 /\ Load("ok")
    \/ nodes < MaxNodes /\ \E e \in WalkDirs : VisitDir(e)
    \/ nodes < MaxNodes /\ \E e \in WalkFiles, b \in BOOLEAN : VisitFile(e, b)
    \/ Leave
    \/ WalkDone

Spec == Init /\ [][Next]_vars

-----------------------------------------------------------------------------
(* SpecLoads: up to MaxLoads loads, failing or not, of one of a few trees *)

Dir(e) == Event("dir", e, TRUE)
Up == Event("leave", NoEntry, TRUE)
Dive_5(blob) == Event("file", fDive_5, blob)
Trip_f(blob) == Event("file", fTrip, blob)

LoadTrees ==
    { <<>>,
      <<Dir(dDive), Up, Dir(d2023), Dir(d07), Dir(dTrip), Up, Up, Up>>,
      <<Dir(d2023), Dir(d07), Dir(dTrip), Dir(dDive), Up, Up, Up, Up>>,
      <<Dir(d2023), Dir(d07), Dir(dTrip), Up, Up, Up, Dive_5(TRUE)>> }
    \cup { <<Dir(dDive), Dive_5(b), Up, Dive_5(TRUE)>> : b \in BOOLEAN }
    \cup { <<Dir(d2023), Dir(dTrip), Dir(dDive), Dive_5(b), Up, Dive_5(TRUE), Up>> :
             b \in BOOLEAN }
    \cup { <<Trip_f(TRUE), Dir(d2023), Dir(d07), Dir(dTrip), Trip_f(b), Up, Up, Up>> :
             b \in BOOLEAN }

NextLoads ==
    \/ nloads < MaxLoads /\ \E a \in Answers : Load(a)
    \/ \E e \in {dDive, d2023, d07, dTrip} : VisitDir(e)
    \/ \E f \in {fDive_5, fTrip}, b \in BOOLEAN : VisitFile(f, b)
    \/ Leave
    \/ WalkDone

InitLoads == \E t \in LoadTrees : Start("given", t)

SpecLoads == InitLoads /\ [][NextLoads]_vars

\* git_tree_walk is a loop of the one thread there is: a walk that has a
\* next step takes it.  Nothing makes the caller load again.
SpecLoadsFair == SpecLoads /\ WF_vars(pc = "walk" /\ NextLoads)

-----------------------------------------------------------------------------
(* SpecDecode: one load that walks down up to MaxPrefix numeric            *)
(* directories and then reaches one dive or trip directory                *)

Years == {1970, 1971, 2023, 2999, 3000}
Months == {0, 1, 2, 7, 12, 13}
Days == {0, 1, 30, 31, 32}
Times == { <<0, 0, 0>>, <<10, 30, 0>>, <<10, 30, 60>>, <<10, 30, 61>>,
           <<10, 60, 0>>, <<23, 59, 59>>, <<24, 0, 0>> }

\* year, month and day written in a dive directory's name
NameDates ==
    { <<-1, -1, d>> : d \in Days }
    \cup { <<-1, m, 15>> : m \in Months }
    \cup { <<y, 7, 15>> : y \in Years }
    \cup { <<2023, m, 15>> : m \in Months }
    \cup { <<2023, 7, d>> : d \in Days }
    \cup { <<2023, 2, 30>> }

DecodeNums == { NumDir(y, 4) : y \in Years } \cup { NumDir(m, 2) : m \in Months }

\* every date at one valid time, every time at a few dates
DecodeDirs ==
    { DiveDir(nd[1], nd[2], nd[3], tag001, 10, 30, 0, sfxNone) : nd \in NameDates }
    \cup { DiveDir(nd[1], nd[2], nd[3], tag001, t[1], t[2], t[3], sfxHex) :
              nd \in { <<-1, -1, 15>>, <<2023, 7, 15>>, <<-1, -1, 32>> }, t \in Times }
    \cup { TripDir(d, lblTrip, sfxNone) : d \in Days \cup {13} }
    \cup { TripDir(13, lblTrip, sfxHex) }

\* only numeric directories were visited so far
OnPrefix == cur.kind = "none" \/ cur.e.kind = "num"

NextDecode ==
    \/ nloads = 0 /\ Load("ok")
    \/ OnPrefix /\ Len(stack) < MaxPrefix /\ \E e \in DecodeNums : VisitDir(e)
    \/ OnPrefix /\ \E e \in DecodeDirs : VisitDir(e)

SpecDecode == Init /\ [][NextDecode]_vars

-----------------------------------------------------------------------------
(* What the last callback was about *)

\* the i-th directory above the entry, when it is a numeric one
UpNum(c, i) == IF Len(c.up) >= i /\ c.up[i].kind = "num" THEN c.up[i].d ELSE -1

\* the date the name and the prefix encode
DecYear(c) == IF c.e.y >= 0 THEN c.e.y ELSE UpNum(c, 1)
DecMonth(c) == IF c.e.mo >= 0 THEN c.e.mo ELSE UpNum(c, 2)
HasDate(c) == c.e.y >= 0 \/ Len(c.up) >= 2

DateValid(c) ==
    /\ HasDate(c)
    /\ DecYear(c) > 1970 /\ DecYear(c) < 3000
    /\ DecMonth(c) \in 1..12
    /\ c.e.d \in 1..31

TimeValid(c) == c.e.h \in 0..23 /\ c.e.mi \in 0..59 /\ c.e.s \in 0..60

IsDiveDir(c) == c.kind = "dir" /\ c.e.kind = "dive"
IsTripDir(c) == c.kind = "dir" /\ c.e.kind = "trip"

Accepted(c) == c.ret = GIT_WALK_OK
CreatedDive(c) == Accepted(c) /\ Len(dive_table) = Len(c.pre.dive_table) + 1
CreatedTrip(c) == Accepted(c) /\ Len(trip_heap) = Len(c.pre.trip_heap) + 1

LastDive == dive_table[Len(dive_table)]

\* days from 1970-01-01 to the civil date y-m-d (proleptic Gregorian)
CivilDay_1(yy, mp, d) ==
    (yy \div 400) * 146097
    + ((yy % 400) * 365 + ((yy % 400) \div 4) - ((yy % 400) \div 100)
       + ((153 * mp + 2) \div 5) + d - 1)
    - 719468
CivilDay(y, m, d) ==
    CivilDay_1(IF m <= 2 THEN y - 1 ELSE y, IF m > 2 THEN m - 3 ELSE m + 9, d)

-----------------------------------------------------------------------------
(* Claims *)

\* C1: a dive directory accepted under a prefix of exactly 8 characters
\* gets a dive that is in no trip, whatever trip was active before.
C1_NoTripAtDepth8 ==
    IsDiveDir(cur) /\ Accepted(cur) /\ strlen(RootOf(cur.up)) = 8
        => /\ CreatedDive(cur)
           /\ active_dive = Len(dive_table)
           /\ LastDive.divetrip = NULL

\* the dive of 2023/07/20-002-09:00:00, visited after the trip 2023/07/13-trip
C1_Witness ==
    /\ IsDiveDir(cur) /\ Accepted(cur) /\ strlen(RootOf(cur.up)) = 8
    /\ cur.e.d = 20
    /\ cur.pre.active_trip # NULL
    /\ LastDive.divetrip = NULL

IsDiveFile(c) == c.kind = "file" /\ c.blob /\ c.pre.active_dive # NULL

\* the name is Dive followed by skip characters and then only digits, at least one
DiveNumbered(name, skip) ==
    /\ HasPrefix(name, sDive)
    /\ Len(name) > 4 + skip
    /\ DigitRun(name, 4 + skip) = Len(name) - (4 + skip)

C3_RejectedChangesNothing ==
    cur.kind = "dir" /\ cur.ret = GIT_WALK_SKIP
        => /\ active_dive = cur.pre.active_dive
           /\ active_trip = cur.pre.active_trip
           /\ dive_table = cur.pre.dive_table
           /\ trip_heap = cur.pre.trip_heap

\* the first load got as far as the walk
FirstLoadWalked ==
    \A i \in 1..Len(start.errors) : start.errors[i] \notin {"noopen", "nobranch", "notree"}

\* C4: the second walk of the same tree adds dives with the timestamps of
\* the first walk's dives, in a trip exactly when the first walk's dive was.
C4_SecondWalkSame ==
    nloads = 2 /\ pc = "idle" /\ store = "ok" /\ FirstLoadWalked
        => /\ Len(dive_table) = 2 * Len(start.dive_table)
           /\ \A i \in 1..Len(start.dive_table) :
                  /\ dive_table[Len(start.dive_table) + i].when = start.dive_table[i].when
                  /\ (dive_table[Len(start.dive_table) + i].divetrip = NULL)
                         <=> (start.dive_table[i].divetrip = NULL)

\* C5: a load that got as far as the walk returns 0.
C5_WalkReturnsZero ==
    nloads > 0 /\ store = "ok" /\ pc = "idle" => ret = 0

\* a walk that reported an error, and skipped a directory if it met the trip
C5_Witness ==
    /\ nloads > 0 /\ store = "ok" /\ pc = "idle"
    /\ ret = 0
    /\ Len(errors) > Len(start.errors)
    /\ errors[Len(errors)] \in {"dive", "unknown"}

\* C6: a load whose repository, branch or tree cannot be had reports it,
\* returns non-zero, visits nothing and leaves the dives and both slots alone.
C6_ResolutionFailure ==
    nloads > 0 /\ store # "ok"
        => /\ pc = "idle"
           /\ ret # 0
           /\ errors = Append(start.errors, store)
           /\ nodes = 0 /\ cur.kind = "none"
           /\ active_dive = start.active_dive
           /\ active_trip = start.active_trip
           /\ dive_table = start.dive_table
           /\ trip_heap = start.trip_heap

\* the tree cannot be had, after a load that left a dive and a trip
C6_Witness ==
    /\ nloads > 1 /\ store = "notree"
    /\ ret = -1
    /\ active_dive # NULL /\ active_trip # NULL
    /\ Len(dive_table) > 0

\* C7: a file changes neither the active dive nor the active trip.
C7_FileKeepsSlots ==
    cur.kind = "file"
        => active_dive = cur.pre.active_dive /\ active_trip = cur.pre.active_trip

\* a file under an active trip that no rule takes
C7_Witness ==
    /\ cur.kind = "file"
    /\ active_trip # NULL
    /\ Len(errors) > Len(cur.pre.errors)
    /\ errors[Len(errors)] = "unknown"

\* C8: a dive directory with a valid date makes a dive exactly when its
\* time of day has hour 0..23, minute 0..59, second 0..60; otherwise it is
\* skipped and no dive is made.
C8_TimeBounds ==
    IsDiveDir(cur) /\ DateValid(cur)
        => /\ CreatedDive(cur) <=> TimeValid(cur)
           /\ ~TimeValid(cur) => cur.ret = GIT_WALK_SKIP /\ dive_table = cur.pre.dive_table

\* 10:30:60 made a dive, at second 37860 of its day
C8_Witness ==
    /\ IsDiveDir(cur) /\ DateValid(cur)
    /\ cur.e.h = 10 /\ cur.e.mi = 30 /\ cur.e.s = 60
    /\ CreatedDive(cur)
    /\ LastDive.when.sec = 37860

\* C9: a dive or trip directory is accepted only with a year in 1971..2999,
\* a month in 1..12 and a day in 1..31, and with such a date (and, for a
\* dive, a valid time) it is accepted, February 30 included.
C9_DateBounds ==
    IsDiveDir(cur) \/ IsTripDir(cur)
        => /\ Accepted(cur) => DateValid(cur)
           /\ DateValid(cur) /\ (IsTripDir(cur) \/ TimeValid(cur)) => Accepted(cur)

\* February 30 made a dive
C9_Witness ==
    /\ IsDiveDir(cur) /\ CreatedDive(cur)
    /\ DecMonth(cur) = 2 /\ cur.e.d = 30

LiteralTime(y, m, d, h, mi, s) == MkTime(CivilDay(y, m, d), h * 3600 + mi * 60 + s)

C12_PrefixDate ==
    IsDiveDir(cur) /\ cur.e.y < 0
        => /\ ~HasDate(cur) => cur.ret = GIT_WALK_SKIP /\ dive_table = cur.pre.dive_table
           /\ Accepted(cur) =>
                  /\ HasDate(cur)
                  /\ CreatedDive(cur)
                  /\ LastDive.when =
                         utc_mktime(dive_tm(UpNum(cur, 1),
                                            IF cur.e.mo >= 0 THEN cur.e.mo ELSE UpNum(cur, 2),
                                            cur.e.d, cur.e.h, cur.e.mi, cur.e.s))
           /\ DateValid(cur) /\ TimeValid(cur) => Accepted(cur)

\* 07-15-001-10:30:00 under 2023/01/ is in July 2023: day 19553
C12_Witness ==
    /\ IsDiveDir(cur) /\ CreatedDive(cur)
    /\ cur.e.y < 0 /\ cur.e.mo = 7 /\ cur.e.d = 15
    /\ UpNum(cur, 1) = 2023 /\ UpNum(cur, 2) = 1
    /\ LastDive.when = [day |-> 19553, sec |-> 37800]

\* the entry at path lies inside the directory dir
PathIn(dir, path) == Len(path) > Len(dir) /\ SubSeq(path, 1, Len(dir)) = dir

\* C13: a dive that is in a trip was made by a dive directory inside that
\* trip's directory, and a dive directory inside no trip directory makes a
\* dive that is in no trip.
C13_TripIsAbove ==
    \A i \in 1..Len(dive_table) :
        /\ dive_table[i].divetrip # NULL =>
               PathIn(made.trip[dive_table[i].divetrip], made.dive[i])
        /\ (\A k \in 1..Len(trip_heap) : ~PathIn(made.trip[k], made.dive[i])) =>
               dive_table[i].divetrip = NULL

\* C14: a file Dive... or Divecomputer... that is handed to a parser of
\* dive content finds as the active dive the dive made by the directory the
\* file is in.
C14_FileOfItsDirectory ==
    cur.kind = "file" /\ cur.pre.active_dive # NULL /\ HasPrefix(cur.e.name, sDive)
        => made.dive[cur.pre.active_dive] = cur.up

\* the name does not start with exactly 2 or 4 digits, or goes on after
\* them with something other than '-'
BadName(e) ==
    \/ DigitRun(e.name, 0) \notin {2, 4}
    \/ At(e.name, DigitRun(e.name, 0)) \notin {NUL, "-"}

\* the name is 2 or 4 digits and nothing else
OnlyDigits(e) == DigitRun(e.name, 0) \in {2, 4} /\ Len(e.name) = DigitRun(e.name, 0)

\* the callback left dives, trips, both slots and the error log as they were
Untouched(c) == St = c.pre

\* C15: a directory with a bad name is skipped and changes nothing, the walk
\* is never inside one and no callback comes from inside one; a skipped
\* directory is not entered; a directory named by 2 or 4 digits alone is
\* entered and changes nothing.
C15_Descent ==
    /\ \A i \in 1..Len(stack) : ~BadName(stack[i])
    /\ \A i \in 1..Len(cur.up) : ~BadName(cur.up[i])
    /\ cur.kind = "dir" /\ BadName(cur.e) => cur.ret = GIT_WALK_SKIP /\ Untouched(cur)
    /\ cur.kind = "dir" /\ cur.ret = GIT_WALK_SKIP =>
           ~(Len(stack) > Len(cur.up) /\ stack[Len(cur.up) + 1] = cur.e)
    /\ cur.kind = "dir" /\ OnlyDigits(cur.e) => cur.ret = GIT_WALK_OK /\ Untouched(cur)

\* 2023/07/13-trip/123 is skipped and not entered, and the trip of
\* 2023/07/13-trip stays the active one
C15_Witness ==
    /\ cur.kind = "dir" /\ cur.e = d123 /\ cur.ret = GIT_WALK_SKIP
    /\ Len(cur.up) = 3 /\ stack = cur.up
    /\ active_trip # NULL /\ active_trip = cur.pre.active_trip

\* C16: an accepted trip directory allocates one trip, which becomes the
\* active trip in place of the one before, and leaves the active dive, the
\* dives and the error log as they were.
C16_TripDirEffect ==
    IsTripDir(cur) /\ Accepted(cur)
        => /\ trip_heap = Append(cur.pre.trip_heap, trip_heap[Len(trip_heap)])
           /\ active_trip = Len(trip_heap)
           /\ active_trip # cur.pre.active_trip
           /\ active_dive = cur.pre.active_dive
           /\ dive_table = cur.pre.dive_table
           /\ errors = cur.pre.errors

\* 2023/07/13-trip of a second load, met with the dive and the trip of the
\* first load active: the trip is replaced, the dive stays
C16_Witness ==
    /\ IsTripDir(cur) /\ Accepted(cur)
    /\ cur.pre.active_dive # NULL /\ active_dive = cur.pre.active_dive
    /\ cur.pre.active_trip # NULL /\ active_trip = cur.pre.active_trip + 1

\* C17: an accepted dive directory registers one dive, the active dive from
\* then on, which is in the trip that is active once a prefix of 8
\* characters has dropped it, and in none when none is; nothing else
\* registers a dive, so there are as many dives as accepted dive directories.
C17_OneDivePerDirectory ==
    /\ Len(dive_table) = made.ndirs
    /\ IsDiveDir(cur) /\ Accepted(cur)
           => /\ dive_table = Append(cur.pre.dive_table, LastDive)
              /\ active_dive = Len(dive_table)
              /\ LastDive.divetrip =
                     (IF strlen(RootOf(cur.up)) = 8 THEN NULL ELSE cur.pre.active_trip)
    /\ cur.kind # "none" /\ ~(IsDiveDir(cur) /\ Accepted(cur))
           => Len(dive_table) = Len(cur.pre.dive_table)

\* the dive of 2023/07/13-trip/2023-07-15-001-10:30:00~a1 is the one dive
\* and is in the trip of 13-trip
C17_Witness ==
    /\ IsDiveDir(cur) /\ Accepted(cur)
    /\ strlen(RootOf(cur.up)) = 16
    /\ cur.pre.active_trip # NULL /\ LastDive.divetrip = cur.pre.active_trip
    /\ Len(dive_table) = 1 /\ made.ndirs = 1

\* C18: a walk that has ended has visited the given tree to its last entry,
\* each entry in its turn, and every walk that has begun ends.
C18_WalkCompletes ==
    /\ [](nloads > 0 /\ store = "ok" /\ pc = "idle" => pos = Len(tree) + 1)
    /\ (pc = "walk") ~> (pc = "idle")

\* the walk has ended with the file Dive-5 at the top, visited after the
\* blob of Dive-5 in the dive directory could not be read
C18_Witness ==
    /\ nloads > 0 /\ store = "ok" /\ pc = "idle" /\ pos = Len(tree) + 1
    /\ cur.kind = "file" /\ cur.up = <<>>
    /\ Len(errors) > Len(start.errors)
    /\ errors[Len(start.errors) + 1] = "dive"

\* the rule of the dispatch that takes the file of callback c, by the
\* file's name and the slots as the callback found them
Rule(c) ==
    IF c.pre.active_dive # NULL /\ HasPrefix(c.e.name, sDivecomputer) THEN "divecomputer"
    ELSE IF c.pre.active_dive # NULL /\ HasPrefix(c.e.name, sDive) THEN "dive"
    ELSE IF c.pre.active_trip # NULL /\ c.e.name = sTrip THEN "trip"
    ELSE "unknown"

\* C19: a file goes to the first rule that takes it.  A parser that cannot
\* read the blob reports that, under its own name, and changes nothing; the
\* parsers of dive computers and of trips never change a dive; the parser
\* of dives changes at most the number of the active dive; a file no rule
\* takes is reported as unknown and changes nothing.
C19_Dispatch ==
    cur.kind = "file"
        => /\ errors = (IF Rule(cur) = "unknown" \/ ~cur.blob
                        THEN Append(cur.pre.errors, Rule(cur))
                        ELSE cur.pre.errors)
           /\ Rule(cur) # "dive" \/ ~cur.blob => dive_table = cur.pre.dive_table
           /\ Rule(cur) = "dive" =>
                  dive_table = [cur.pre.dive_table EXCEPT
                                   ![active_dive].number = dive_table[active_dive].number]
           /\ trip_heap = cur.pre.trip_heap
           /\ active_dive = cur.pre.active_dive
           /\ active_trip = cur.pre.active_trip

\* Divecomputer1, read after Dive-5 set the number 5, leaves the number 5
C19_Witness ==
    /\ cur.kind = "file" /\ cur.e = fDivecomputer1 /\ cur.blob
    /\ Rule(cur) = "divecomputer"
    /\ dive_table[active_dive].number = 5
    /\ errors = <<>>

====
